---- MODULE Spec2Model ----
(***************************************************************************)
(* A state-machine model of the LA Times news scraper: the workitem loop   *)
(* of tasks.py (scrape_LA_times), the browser session of                   *)
(* get_la_times_latest_news, the pagination loop of                        *)
(* LATimesScraper.get_news and the report rows of create_output_rows.      *)
(*                                                                         *)
(* Python values are tagged records (PyNone, PyStr, PyInt); text is a      *)
(* sequence of one-character strings.  A timestamp is an integer tick;     *)
(* a month is the tick divided by TicksPerMonth.                           *)
(***************************************************************************)
EXTENDS Integers, Sequences, FiniteSets, TLC

VARIABLES
    \* ---- the web site and the browser (the environment of the scraper)
    results,      \* the search results in display order, a sequence of elements
    pageSize,     \* how many results the site shows per page
    categories,   \* the textContent of the entries of the Topics filter menu
    shown,        \* the result page whose DOM is displayed
    target,       \* the result page the last navigation leads to
    stale,        \* positions of the held batch whose handle went stale in place
    driver,       \* LATimesScraper._driver: "none", "live" or "quit"
    \* ---- LATimesScraper.get_news
    pc,           \* the position of the program
    min_date,     \* the cutoff month
    news,         \* the accumulated set of articles
    articles,     \* the batch being scanned: handles [page, pos]
    idx,          \* the position of the for loop in the batch
    should_stop_pagination,
    should_refetch_articles,
    returned,     \* the list get_news returned
    exc,          \* the exception that left the program, or "none"
    downloaded,   \* positions of the batch whose image download_image saved
    next_page_button,   \* what go_to_next_page met at the pagination control
    clicked,      \* positions of the category entries filter_by_category clicked
    search_results_stale,   \* the results element get_news located went stale
    \* ---- scrape_LA_times
    item,         \* the payload of the input workitem reserved last
    order,        \* how many input workitems the loop has taken (enumerate)
    outputs,      \* workitems.outputs: the payloads created
    released,     \* per workitem taken: "PENDING", or "BUSINESS" (item.fail)
    search_query, category, n_months,   \* the locals of the loop body
    output_rows,  \* the rows create_output_rows returned
    \* ---- the text analyzers of utilities.py
    input_text,   \* the text argument
    input_query,  \* the search_query argument
    query_count,  \* what count_search_query returned
    contains_money   \* what is_there_any_money_amount returned

siteVars == <<results, pageSize, categories>>
browserVars == <<shown, target, stale, driver>>
newsVars == <<pc, min_date, news, articles, idx, should_stop_pagination,
              should_refetch_articles, returned, exc>>
taskVars == <<item, order, outputs, released, search_query, category,
              n_months, output_rows>>
textVars == <<input_text, input_query, query_count, contains_money>>
phaseVars == <<clicked, search_results_stale>>
vars == <<siteVars, browserVars, newsVars, downloaded, next_page_button,
          phaseVars, taskVars, textVars>>

----------------------------------------------------------------------------
\* Bounds of the model

MaxResults == 3
MaxPageSize == 2
MaxMonths == 2
MaxItems == 2
TicksPerMonth == 2
MaxText == 4
MaxQuery == 2
MaxMenu == 3

\* the month of datetime.now(): later than the first month of every window,
\* so that no cutoff reaches back to the month of datetime.min
CurrentMonth == MaxMonths + 1

----------------------------------------------------------------------------
\* Python values

PyNone == [t |-> "none"]
PyStr(s) == [t |-> "str", s |-> s]
PyInt(n) == [t |-> "int", n |-> n]
Absent == [t |-> "absent"]

IsStr(v) == v.t = "str"

\* the characters str.strip() removes and \s matches
Whitespace == {" ", "\t", "\n"}
Digits == <<"0", "1", "2", "3", "4", "5", "6", "7", "8", "9">>
DigitChars == {Digits[i] : i \in 1..10}

RECURSIVE lstrip(_)
lstrip(s) == IF s # <<>> /\ Head(s) \in Whitespace THEN lstrip(Tail(s)) ELSE s

RECURSIVE rstrip(_)
rstrip(s) ==
    IF s # <<>> /\ s[Len(s)] \in Whitespace
    THEN rstrip(SubSeq(s, 1, Len(s) - 1))
    ELSE s

\* str.strip()
strip(s) == rstrip(lstrip(s))

\* utilities.string_has_value / tasks.is_not_empty_string:
\* isinstance(value, str) and value.strip()
is_not_empty_string(v) == IsStr(v) /\ strip(v.s) # <<>>

\* str(n) for an integer
RECURSIVE NatToStr(_)
NatToStr(n) ==
    IF n < 10 THEN <<Digits[n + 1]>>
    ELSE NatToStr(n \div 10) \o <<Digits[(n % 10) + 1]>>

IntToStr(n) == IF n < 0 THEN <<"-">> \o NatToStr(0 - n) ELSE NatToStr(n)

\* str(payload.get(key, "")): the default "" for an absent key, "None" for null
PyToStr(v) ==
    CASE v.t = "absent" -> <<>>
      [] v.t = "none" -> <<"N", "o", "n", "e">>
      [] v.t = "int" -> IntToStr(v.n)
      [] v.t = "str" -> v.s

\* str.isdigit()
isdigit(s) == s # <<>> /\ \A i \in 1..Len(s) : s[i] \in DigitChars

DigitValue(c) == CHOOSE d \in 0..9 : Digits[d + 1] = c

\* int(s) for a string of digits
RECURSIVE StrToNat(_)
StrToNat(s) ==
    IF s = <<>> THEN 0
    ELSE 10 * StrToNat(SubSeq(s, 1, Len(s) - 1)) + DigitValue(s[Len(s)])

Max(a, b) == IF a >= b THEN a ELSE b
Min(a, b) == IF a <= b THEN a ELSE b

----------------------------------------------------------------------------
\* Article (models.py)

\* datetime.min, the timestamp of an article whose date is not found
DatetimeMin == 0

\* Article.publication_month: published_at truncated to its month
publication_month(a) == a.published_at \div TicksPerMonth

\* Article.publication_date: the calendar date of published_at
publication_date(a) == a.published_at

\* Article.__eq__ (and __hash__): the key is (title, published_at)
ArticleEq(a, b) == a.title = b.title /\ a.published_at = b.published_at

ArticleKey(a) == <<a.title, a.published_at>>

\* set.add if Article compared all its fields
SetAddAllFields(s, a) == s \cup {a}

\* set.add under Article.__eq__: an equal member keeps its place
SetAdd(s, a) == IF \E b \in s : ArticleEq(a, b) THEN s ELSE s \cup {a}

----------------------------------------------------------------------------
\* The web site: result elements and pages

MonthStart(m) == m * TicksPerMonth

\* data-timestamp values of the result elements: last month, and two
\* instants of the current month
Timestamps ==
    {MonthStart(CurrentMonth - 1), MonthStart(CurrentMonth),
     MonthStart(CurrentMonth) + 1}

Element(title, description, timestamp, category_, image_url) ==
    [title |-> title, description |-> description, timestamp |-> timestamp,
     category |-> category_, image_url |-> image_url]

TitleA == PyStr(<<"a">>)
TitleB == PyStr(<<"b", " ", "$", "1">>)
Descr == PyStr(<<"d", "A">>)
Url == PyStr(<<"u">>)
Topic == PyStr(<<"c">>)

\* the Topics menu of the site of the task: entries that differ from the
\* category of the payloads by case and surrounding blanks, and one equal to it
TopicsMenu == << <<"x">>, <<" ", "C">>, <<"c">> >>

TsOld == PyInt(MonthStart(CurrentMonth - 1))
TsNew == PyInt(MonthStart(CurrentMonth))
TsNewer == PyInt(MonthStart(CurrentMonth) + 1)

\* The elements a result page can hold: plain and illustrated articles, the
\* same article with other optional fields, articles of two months, an
\* article without a timestamp, and an element without title.
Elements ==
    { Element(TitleA, Descr, TsNew, PyNone, PyNone),
      Element(TitleA, Descr, TsNew, Topic, Url),
      Element(TitleB, Descr, TsNew, PyNone, PyNone),
      Element(TitleA, Descr, TsNewer, Topic, Url),
      Element(TitleA, Descr, TsOld, PyNone, PyNone),
      Element(TitleB, Descr, PyNone, PyNone, PyNone),
      Element(PyNone, Descr, TsNew, PyNone, Url) }

SeqsUpTo(S, n) == UNION {[1..k -> S] : k \in 1..n}

NumPages == (Len(results) + pageSize - 1) \div pageSize

PageOf(k) ==
    SubSeq(results, (k - 1) * pageSize + 1, Min(k * pageSize, Len(results)))

\* the element behind a handle
ElementOf(h) == PageOf(h.page)[h.pos]

\* the handles of the elements displayed now
VisibleHandles == [i \in 1..Len(PageOf(shown)) |-> [page |-> shown, pos |-> i]]

\* the names generate_random_filename can give a downloaded image
ImagePaths == {PyStr(<<"i", "1">>), PyStr(<<"i", "2">>)}

----------------------------------------------------------------------------
\* LATimesScraper: parsing one element

\* a Python truth test of an optional string: None and "" are falsy
Truthy(v) == IsStr(v) /\ v.s # <<>>

\* the current time for an element without timestamp
ExtractArticleDateNow(e) ==
    IF e.timestamp = PyNone THEN MonthStart(CurrentMonth) ELSE e.timestamp.n

\* extract_article_date: the data-timestamp, or datetime.min when not found
extract_article_date(e) ==
    IF e.timestamp = PyNone THEN DatetimeMin ELSE e.timestamp.n

\* parse_article raises ArticleParseError: title or description not found
ParseFails(e) == ~Truthy(e.title) \/ ~Truthy(e.description)

\* parse_article downloads the image when the element has an image url
HasImage(e) == Truthy(e.image_url)

\* the image_filepath values parse_article can give the element's article
DownloadPaths(e) == IF HasImage(e) THEN ImagePaths ELSE {PyNone}

\* the Article parse_article builds from an element
MakeArticle(e, path) ==
    [title |-> e.title, description |-> e.description,
     published_at |-> extract_article_date(e), category |-> e.category,
     image_url |-> e.image_url, image_filepath |-> path]

\* the comparison one month late
IsOlderThanCutoffLate(a, cutoff) == publication_month(a) < cutoff - 1

\* the comparison left out
IsOlderThanCutoffIgnored(a, cutoff) == FALSE

\* get_news: article.publication_month < min_date
IsOlderThanCutoff(a, cutoff) == publication_month(a) < cutoff

\* utilities.is_web_element_stale: the handle is of a replaced page, or the
\* element went stale (or disabled) in place
is_web_element_stale(h, i) == h.page # shown \/ i \in stale

\* the check returning after the first element
FirstElementStale(batch) ==
    batch # <<>> /\ is_web_element_stale(batch[1], 1)

\* utilities.is_there_any_stale_web_element
is_there_any_stale_web_element(batch) ==
    \E i \in 1..Len(batch) : is_web_element_stale(batch[i], i)

\* tasks.compute_minimum_publication_date: the first month of the window
compute_minimum_publication_date(n) == CurrentMonth - (n - 1)

\* the order without reverse=True
InSortOrderAscending(a, b) == a.published_at <= b.published_at

\* sorted(news, key=published_at, reverse=True): the order of two neighbours
InSortOrder(a, b) == a.published_at >= b.published_at

Orderings(S) ==
    {f \in [1..Cardinality(S) -> S] :
        \A i, j \in 1..Cardinality(S) : i # j => f[i] # f[j]}

\* the lists sorted() can return for a set (ties in the set's own order)
SortedNews(S) ==
    {f \in Orderings(S) :
        \A i \in 1..(Cardinality(S) - 1) : InSortOrder(f[i], f[i + 1])}

\* the decision without the stop flag
LoopDecisionNoStop(refetch, stop) == IF refetch THEN "refetch" ELSE "advance"

\* the stop flag consulted before the refetch flag
LoopDecisionStopFirst(refetch, stop) ==
    IF stop THEN "break" ELSE IF refetch THEN "refetch" ELSE "advance"

\* get_news after a batch: refetch, else stop, else advance
LoopDecision(refetch, stop) ==
    IF refetch THEN "refetch" ELSE IF stop THEN "break" ELSE "advance"

----------------------------------------------------------------------------
\* LATimesScraper.get_news

GetNewsPcs == {"gn_start", "gn_wait_stale", "gn_fetch", "gn_check", "gn_parse"}

\* an exception no caller handles: it leaves get_news,
\* get_la_times_latest_news and scrape_LA_times
Raise(e) ==
    /\ pc' = "crashed"
    /\ exc' = e

\* return sorted(news, ...)
Return ==
    /\ returned' \in SortedNews(news)
    /\ pc' = "gn_returned"
    /\ exc' = exc

\* lines 150-158: locate the results element (displayed, so not stale),
\* select "Newest"
SelectNewest ==
    /\ pc = "gn_start"
    /\ search_results_stale' = FALSE
    /\ pc' = "gn_wait_stale"
    /\ UNCHANGED <<min_date, news, articles, idx, should_stop_pagination,
                   should_refetch_articles, returned, exc>>
    /\ UNCHANGED <<textVars, clicked, downloaded, next_page_button>>
    /\ UNCHANGED <<siteVars, browserVars, taskVars>>

\* the page replaces the results by the ones sorted by newest: the element
\* located before the selection goes stale
SortReloads ==
    /\ pc = "gn_wait_stale"
    /\ ~search_results_stale
    /\ search_results_stale' = TRUE
    /\ UNCHANGED <<textVars, clicked, downloaded, next_page_button>>
    /\ UNCHANGED <<siteVars, browserVars, newsVars, taskVars>>

\* the wait without the condition
StalenessNotAwaited(element_stale) == TRUE

\* EC.staleness_of(element)
staleness_of(element_stale) == element_stale

\* lines 161-163: the wait saw the unsorted results stale; news = set()
ResultsWentStale ==
    /\ pc = "gn_wait_stale"
    /\ staleness_of(search_results_stale)
    /\ pc' = "gn_fetch"
    /\ news' = {}
    /\ UNCHANGED <<min_date, articles, idx, should_stop_pagination,
                   should_refetch_articles, returned, exc>>
    /\ UNCHANGED <<textVars, phaseVars, downloaded, next_page_button>>
    /\ UNCHANGED <<siteVars, browserVars, taskVars>>

\* a WebDriverWait(...).until(...) of get_news times out: its condition did
\* not come true in time
WaitTimeout ==
    /\ pc \in {"gn_start", "gn_wait_stale", "gn_fetch"}
    /\ pc = "gn_wait_stale" => ~staleness_of(search_results_stale)
    /\ Raise("TimeoutException")
    /\ UNCHANGED <<min_date, news, articles, idx, should_stop_pagination,
                   should_refetch_articles, returned>>
    /\ UNCHANGED <<textVars, phaseVars, downloaded, next_page_button>>
    /\ UNCHANGED <<siteVars, browserVars, taskVars>>

\* lines 168-171, 246-248: reset the flags, fetch the visible elements
FetchArticles ==
    /\ pc = "gn_fetch"
    /\ should_stop_pagination' = FALSE
    /\ should_refetch_articles' = FALSE
    /\ articles' = VisibleHandles
    /\ idx' = 1
    /\ stale' = {}
    /\ downloaded' = {}
    /\ pc' = "gn_check"
    /\ UNCHANGED <<min_date, news, returned, exc>>
    /\ UNCHANGED <<textVars, phaseVars, next_page_button>>
    /\ UNCHANGED <<siteVars, shown, target, driver, taskVars>>

\* lines 250-251: a stale element in the batch: fetch again
RefetchStaleBatch ==
    /\ pc = "gn_check"
    /\ is_there_any_stale_web_element(articles)
    /\ articles' = <<>>
    /\ stale' = {}
    /\ pc' = "gn_fetch"
    /\ UNCHANGED <<min_date, news, idx, should_stop_pagination,
                   should_refetch_articles, returned, exc>>
    /\ UNCHANGED <<textVars, phaseVars, downloaded, next_page_button>>
    /\ UNCHANGED <<siteVars, shown, target, driver, taskVars>>

\* line 253: no stale element: the batch is scanned
AcceptBatch ==
    /\ pc = "gn_check"
    /\ ~is_there_any_stale_web_element(articles)
    /\ pc' = "gn_parse"
    /\ UNCHANGED <<min_date, news, articles, idx, should_stop_pagination,
                   should_refetch_articles, returned, exc>>
    /\ UNCHANGED <<textVars, phaseVars, downloaded, next_page_button>>
    /\ UNCHANGED <<siteVars, browserVars, taskVars>>

Scanning ==
    /\ pc = "gn_parse"
    /\ ~should_stop_pagination
    /\ idx <= Len(articles)

\* every exception handled like ArticleParseError
ExceptClauseCatchAll(e) ==
    IF e = "StaleElementReferenceException" THEN "refetch" ELSE "log"

\* lines 188, 196: the except clause of the loop body an exception meets
ExceptClause(e) ==
    CASE e = "ArticleParseError" -> "log"
      [] e = "StaleElementReferenceException" -> "refetch"
      [] OTHER -> "propagate"

\* lines 174-197: the loop body after parse_article raised e on the element
\* at idx: log and go on, flag the refetch and go on, or let e leave get_news
Handle(e) ==
    CASE ExceptClause(e) = "log" ->
            /\ idx' = idx + 1
            /\ UNCHANGED <<pc, exc, should_refetch_articles>>
      [] ExceptClause(e) = "refetch" ->
            /\ should_refetch_articles' = TRUE
            /\ idx' = idx + 1
            /\ UNCHANGED <<pc, exc>>
      [] OTHER ->
            /\ Raise(e)
            /\ UNCHANGED <<idx, should_refetch_articles>>

\* lines 272-273: the positions with a saved image once download_image
\* returned for the element at position i
AfterDownload(e, i) == IF HasImage(e) THEN downloaded \cup {i} ELSE downloaded

\* lines 196-197: the element is stale when parse_article reads it
ParseStale ==
    /\ Scanning
    /\ is_web_element_stale(articles[idx], idx)
    /\ Handle("StaleElementReferenceException")
    /\ UNCHANGED <<min_date, news, articles, should_stop_pagination, returned>>
    /\ UNCHANGED <<textVars, phaseVars, downloaded, next_page_button>>
    /\ UNCHANGED <<siteVars, browserVars, taskVars>>

\* line 273, 351-352: the download of the element's image fails
ParseDownloadFails ==
    /\ Scanning
    /\ ~is_web_element_stale(articles[idx], idx)
    /\ HasImage(ElementOf(articles[idx]))
    /\ Handle("HTTPError")
    /\ UNCHANGED <<min_date, news, articles, should_stop_pagination, returned>>
    /\ UNCHANGED <<textVars, phaseVars, downloaded, next_page_button>>
    /\ UNCHANGED <<siteVars, browserVars, taskVars>>

\* lines 272-277, 188-194: the image is saved, parse_article raises
\* ArticleParseError, the screenshot of the element is taken, the loop goes on
ParseError ==
    /\ Scanning
    /\ ~is_web_element_stale(articles[idx], idx)
    /\ ParseFails(ElementOf(articles[idx]))
    /\ downloaded' = AfterDownload(ElementOf(articles[idx]), idx)
    /\ Handle("ArticleParseError")
    /\ UNCHANGED <<min_date, news, articles, should_stop_pagination, returned>>
    /\ UNCHANGED <<textVars, phaseVars, next_page_button>>
    /\ UNCHANGED <<siteVars, browserVars, taskVars>>

\* lines 272-277, 188-191: parse_article raises ArticleParseError and the
\* element goes stale before article_webelement.screenshot reads it: the
\* StaleElementReferenceException is raised inside the except clause, which
\* no clause of the same try statement handles
ScreenshotStale ==
    /\ Scanning
    /\ ~is_web_element_stale(articles[idx], idx)
    /\ ParseFails(ElementOf(articles[idx]))
    /\ ExceptClause("ArticleParseError") = "log"
    /\ downloaded' = AfterDownload(ElementOf(articles[idx]), idx)
    /\ stale' = stale \cup {idx}
    /\ Raise("StaleElementReferenceException")
    /\ UNCHANGED <<min_date, news, articles, idx, should_stop_pagination,
                   should_refetch_articles, returned>>
    /\ UNCHANGED <<textVars, phaseVars, next_page_button>>
    /\ UNCHANGED <<siteVars, shown, target, driver, taskVars>>

\* lines 180-182: the article is older than the cutoff: stop, break
ParseOld ==
    /\ Scanning
    /\ ~is_web_element_stale(articles[idx], idx)
    /\ ~ParseFails(ElementOf(articles[idx]))
    /\ \E path \in DownloadPaths(ElementOf(articles[idx])) :
          IsOlderThanCutoff(MakeArticle(ElementOf(articles[idx]), path), min_date)
    /\ downloaded' = AfterDownload(ElementOf(articles[idx]), idx)
    /\ should_stop_pagination' = TRUE
    /\ UNCHANGED <<pc, min_date, news, articles, idx, should_refetch_articles,
                   returned, exc>>
    /\ UNCHANGED <<textVars, phaseVars, next_page_button>>
    /\ UNCHANGED <<siteVars, browserVars, taskVars>>

\* line 185: news.add(article)
ParseAdmit ==
    /\ Scanning
    /\ ~is_web_element_stale(articles[idx], idx)
    /\ ~ParseFails(ElementOf(articles[idx]))
    /\ \E path \in DownloadPaths(ElementOf(articles[idx])) :
          /\ ~IsOlderThanCutoff(MakeArticle(ElementOf(articles[idx]), path), min_date)
          /\ news' = SetAdd(news, MakeArticle(ElementOf(articles[idx]), path))
    /\ downloaded' = AfterDownload(ElementOf(articles[idx]), idx)
    /\ idx' = idx + 1
    /\ UNCHANGED <<pc, min_date, articles, should_stop_pagination,
                   should_refetch_articles, returned, exc>>
    /\ UNCHANGED <<textVars, phaseVars, next_page_button>>
    /\ UNCHANGED <<siteVars, browserVars, taskVars>>

BatchScanned ==
    /\ pc = "gn_parse"
    /\ should_stop_pagination \/ idx > Len(articles)

Decision == LoopDecision(should_refetch_articles, should_stop_pagination)

\* lines 200-201: continue, the same page is fetched again
RestartSamePage ==
    /\ BatchScanned
    /\ Decision = "refetch"
    /\ pc' = "gn_fetch"
    /\ UNCHANGED <<min_date, news, articles, idx, should_stop_pagination,
                   should_refetch_articles, returned, exc>>
    /\ UNCHANGED <<textVars, phaseVars, downloaded, next_page_button>>
    /\ UNCHANGED <<siteVars, browserVars, taskVars>>

\* lines 204-205, 213: break and return
StopPagination ==
    /\ BatchScanned
    /\ Decision = "break"
    /\ Return
    /\ UNCHANGED <<min_date, news, articles, idx, should_stop_pagination,
                   should_refetch_articles>>
    /\ UNCHANGED <<textVars, phaseVars, downloaded, next_page_button>>
    /\ UNCHANGED <<siteVars, browserVars, taskVars>>

\* the displayed page has a next-page control that is active
HasNextPage == shown < NumPages

\* the intercepted click reported as a page advance
GoToNextPageTrueOnIntercept(button) == button \in {"clicked", "intercepted"}

\* every outcome at the control reported as a page advance
GoToNextPageAlwaysTrue(button) == TRUE

\* go_to_next_page: True only when the control was found, active and clicked
go_to_next_page(button) == button = "clicked"

\* lines 207-211: next_page_found = self.go_to_next_page(); break if not
AfterNextPage(button) ==
    /\ next_page_button' = button
    /\ IF go_to_next_page(button)
       THEN /\ pc' = "gn_fetch"
            /\ UNCHANGED <<returned, exc>>
       ELSE Return

\* lines 222-225: no next-page control on the page
NextPageAbsent ==
    /\ BatchScanned
    /\ Decision = "advance"
    /\ ~HasNextPage
    /\ AfterNextPage("absent")
    /\ UNCHANGED <<min_date, news, articles, idx, should_stop_pagination,
                   should_refetch_articles>>
    /\ UNCHANGED <<textVars, phaseVars, downloaded>>
    /\ UNCHANGED <<siteVars, browserVars, taskVars>>

\* lines 231-232: the control is marked data-inactive
NextPageInactive ==
    /\ BatchScanned
    /\ Decision = "advance"
    /\ ~HasNextPage
    /\ AfterNextPage("inactive")
    /\ UNCHANGED <<min_date, news, articles, idx, should_stop_pagination,
                   should_refetch_articles>>
    /\ UNCHANGED <<textVars, phaseVars, downloaded>>
    /\ UNCHANGED <<siteVars, browserVars, taskVars>>

\* the page a click on the displayed page's control navigates to
ClickTarget == shown + 1

\* lines 234-236: the click succeeds, the loop goes on
NextPageClicked ==
    /\ BatchScanned
    /\ Decision = "advance"
    /\ HasNextPage
    /\ target' = ClickTarget
    /\ AfterNextPage("clicked")
    /\ UNCHANGED <<min_date, news, articles, idx, should_stop_pagination,
                   should_refetch_articles>>
    /\ UNCHANGED <<textVars, phaseVars, downloaded>>
    /\ UNCHANGED <<siteVars, shown, stale, driver, taskVars>>

\* lines 237-238: the click is intercepted
NextPageIntercepted ==
    /\ BatchScanned
    /\ Decision = "advance"
    /\ HasNextPage
    /\ AfterNextPage("intercepted")
    /\ UNCHANGED <<min_date, news, articles, idx, should_stop_pagination,
                   should_refetch_articles>>
    /\ UNCHANGED <<textVars, phaseVars, downloaded>>
    /\ UNCHANGED <<siteVars, browserVars, taskVars>>

----------------------------------------------------------------------------
\* The browser while get_news runs

\* the navigation a click started completes: the next page is displayed and
\* every handle of the page before is stale
PageLoads ==
    /\ pc \in GetNewsPcs
    /\ target # shown
    /\ shown' = target
    /\ UNCHANGED <<target, stale, driver>>
    /\ UNCHANGED <<textVars, phaseVars, downloaded, next_page_button>>
    /\ UNCHANGED <<siteVars, newsVars, taskVars>>

\* an element of the held batch is re-rendered (or disabled): its handle is
\* stale from now on.  Staleness shows only when a handle is read: before
\* the check of the batch one stale element stands for any number of them,
\* and during the scan the element that goes stale is the one read next.
ElementGoesStale ==
    /\ pc \in {"gn_check", "gn_parse"}
    /\ ~should_stop_pagination
    /\ \E i \in idx..Len(articles) :
          /\ i \notin stale
          /\ pc = "gn_check" => stale = {}
          /\ pc = "gn_parse" => i = idx
          /\ stale' = stale \cup {i}
    /\ UNCHANGED <<shown, target, driver>>
    /\ UNCHANGED <<textVars, phaseVars, downloaded, next_page_button>>
    /\ UNCHANGED <<siteVars, newsVars, taskVars>>

NextNews ==
    \/ SelectNewest
    \/ ResultsWentStale
    \/ WaitTimeout
    \/ FetchArticles
    \/ RefetchStaleBatch
    \/ AcceptBatch
    \/ ParseStale
    \/ ParseDownloadFails
    \/ ParseError
    \/ ScreenshotStale
    \/ ParseOld
    \/ ParseAdmit
    \/ RestartSamePage
    \/ StopPagination
    \/ NextPageAbsent
    \/ NextPageInactive
    \/ NextPageClicked
    \/ NextPageIntercepted
    \/ PageLoads
    \/ ElementGoesStale
    \/ SortReloads

\* get_news on its own: a live session on the first page of the results of
\* some site, some cutoff
InitNews ==
    /\ results \in SeqsUpTo(Elements, MaxResults)
    /\ pageSize \in {1, MaxPageSize}
    /\ categories = TopicsMenu
    /\ clicked = <<>>
    /\ search_results_stale = FALSE
    /\ shown = 1
    /\ target = 1
    /\ stale = {}
    /\ driver = "live"
    /\ pc = "gn_start"
    /\ n_months \in {1, MaxMonths}
    /\ min_date = compute_minimum_publication_date(n_months)
    /\ news = {}
    /\ articles = <<>>
    /\ idx = 1
    /\ should_stop_pagination = FALSE
    /\ should_refetch_articles = FALSE
    /\ returned = <<>>
    /\ exc = "none"
    /\ downloaded = {}
    /\ next_page_button = "unset"
    /\ input_text = <<>>
    /\ input_query = <<>>
    /\ query_count = 0
    /\ contains_money = FALSE
    /\ item = PyNone
    /\ order = 0
    /\ outputs = <<>>
    /\ released = <<>>
    /\ search_query = PyNone
    /\ category = PyNone
    /\ output_rows = <<>>

SpecNews == InitNews /\ [][NextNews]_vars

\* the steps of get_news itself: the interpreter takes one whenever one is
\* possible
ProgramNext ==
    \/ SelectNewest
    \/ ResultsWentStale
    \/ WaitTimeout
    \/ FetchArticles
    \/ RefetchStaleBatch
    \/ AcceptBatch
    \/ ParseStale
    \/ ParseDownloadFails
    \/ ParseError
    \/ ScreenshotStale
    \/ ParseOld
    \/ ParseAdmit
    \/ RestartSamePage
    \/ StopPagination
    \/ NextPageAbsent
    \/ NextPageInactive
    \/ NextPageClicked
    \/ NextPageIntercepted

\* get_news with its scheduling: the program keeps running, and a navigation
\* that a click started completes
SpecNewsFair ==
    InitNews /\ [][NextNews]_vars /\ WF_vars(ProgramNext) /\ WF_vars(PageLoads)

----------------------------------------------------------------------------
\* Text analyzers (utilities.py)

Uppers ==
    <<"A", "B", "C", "D", "E", "F", "G", "H", "I", "J", "K", "L", "M",
      "N", "O", "P", "Q", "R", "S", "T", "U", "V", "W", "X", "Y", "Z">>

Lowers ==
    <<"a", "b", "c", "d", "e", "f", "g", "h", "i", "j", "k", "l", "m",
      "n", "o", "p", "q", "r", "s", "t", "u", "v", "w", "x", "y", "z">>

Lower(c) ==
    IF \E k \in 1..26 : Uppers[k] = c
    THEN Lowers[CHOOSE k \in 1..26 : Uppers[k] = c]
    ELSE c

\* str.lower()
lower(s) == [i \in 1..Len(s) |-> Lower(s[i])]

StartsWith(s, q) == Len(q) <= Len(s) /\ SubSeq(s, 1, Len(q)) = q

\* str.count(q) for a non-empty q: occurrences that do not overlap
RECURSIVE StrCount(_, _)
StrCount(s, q) ==
    IF Len(s) < Len(q) THEN 0
    ELSE IF StartsWith(s, q)
         THEN 1 + StrCount(SubSeq(s, Len(q) + 1, Len(s)), q)
         ELSE StrCount(Tail(s), q)

\* the count without the two lower() calls
CountSearchQueryCaseSensitive(text, search_query_) ==
    IF search_query_ = <<>> THEN 0 ELSE StrCount(text, search_query_)

\* utilities.count_search_query
count_search_query(text, search_query_) ==
    IF search_query_ = <<>> THEN 0
    ELSE StrCount(lower(text), lower(search_query_))

\* Article.count_search_query_occurrences: title count + description count
count_search_query_occurrences(a, search_query_) ==
    count_search_query(a.title.s, search_query_)
        + count_search_query(a.description.s, search_query_)

\* \d{n} at position i
DigitsAt(s, i, n) ==
    /\ i >= 1
    /\ i + n - 1 <= Len(s)
    /\ \A j \in i..(i + n - 1) : s[j] \in DigitChars

\* (,\d{3})* after a match that ends at position e: the positions a match of
\* the groups can end at
RECURSIVE GroupEnds(_, _)
GroupEnds(s, e) ==
    {e} \cup
        (IF e + 1 <= Len(s) /\ s[e + 1] = "," /\ DigitsAt(s, e + 2, 3)
         THEN GroupEnds(s, e + 4)
         ELSE {})

\* (\.\d{1,2})? after a match that ends at position e
DecimalEnds(s, e) ==
    {e} \cup
        {e + 1 + n : n \in {k \in 1..2 :
            e + 1 <= Len(s) /\ s[e + 1] = "." /\ DigitsAt(s, e + 2, k)}}

\* NUMBERS = \d{1,3}(,\d{3})*(\.\d{1,2})? at position i: the positions a
\* match can end at
NumbersEnds(s, i) ==
    UNION {DecimalEnds(s, g) :
        g \in UNION {GroupEnds(s, i + n - 1) :
            n \in {k \in 1..3 : DigitsAt(s, i, k)}}}

\* the keyword at position i; flags is re.IGNORECASE or nothing
KeywordAt(s, i, word, ignorecase) ==
    /\ i + Len(word) - 1 <= Len(s)
    /\ IF ignorecase
       THEN lower(SubSeq(s, i, i + Len(word) - 1)) = lower(word)
       ELSE SubSeq(s, i, i + Len(word) - 1) = word

\* re.compile(rf"\${NUMBERS}").search(text)
DollarFirst(s) ==
    \E i \in 1..Len(s) : s[i] = "$" /\ NumbersEnds(s, i + 1) # {}

\* re.compile(rf"{NUMBERS}\s?<word>", flags).search(text)
NumbersThenWord(s, word, ignorecase) ==
    \E i \in 1..Len(s) :
        \E e \in NumbersEnds(s, i) :
            \/ KeywordAt(s, e + 1, word, ignorecase)
            \/ /\ e + 1 <= Len(s)
               /\ s[e + 1] \in Whitespace
               /\ KeywordAt(s, e + 2, word, ignorecase)

Dollars == <<"d", "o", "l", "l", "a", "r", "s">>
USD == <<"U", "S", "D">>

\* the patterns compiled without re.IGNORECASE
IsThereAnyMoneyAmountCaseSensitive(s) ==
    \/ DollarFirst(s)
    \/ NumbersThenWord(s, Dollars, FALSE)
    \/ NumbersThenWord(s, USD, FALSE)

\* utilities.is_there_any_money_amount: dollar_first, dollar_last, usd
is_there_any_money_amount(s) ==
    \/ DollarFirst(s)
    \/ NumbersThenWord(s, Dollars, TRUE)
    \/ NumbersThenWord(s, USD, TRUE)

----------------------------------------------------------------------------
\* tasks.py: the workitem loop

Payload(q, c, m) == [search_query |-> q, category |-> c, months |-> m]

Query == PyStr(<<"a">>)

\* the payloads of the input workitems: valid ones (months as a number, as
\* zero, as a string), and ones without category, with a blank query, with
\* negative months, with a null category, without months
Payloads ==
    { Payload(Query, Topic, PyInt(1)),
      Payload(Query, Topic, PyInt(0)),
      Payload(Query, Topic, PyStr(<<"2">>)),
      Payload(Query, Absent, PyInt(1)),
      Payload(PyStr(<<" ">>), Topic, PyInt(1)),
      Payload(Query, Topic, PyInt(0 - 1)),
      Payload(Query, PyNone, PyInt(1)),
      Payload(Query, Topic, Absent) }

\* tasks.is_input_payload_valid
is_input_payload_valid(p) ==
    /\ is_not_empty_string(PyStr(PyToStr(p.search_query)))
    /\ is_not_empty_string(PyStr(PyToStr(p.category)))
    /\ isdigit(PyToStr(p.months))
    /\ StrToNat(PyToStr(p.months)) >= 0

\* payload.get(key): None for an absent key
PayloadGet(v) == IF v = Absent THEN PyNone ELSE v

\* int(item.payload.get("months")) of a payload that passed the validation
MonthsOf(p) == IF p.months.t = "int" THEN p.months.n ELSE StrToNat(p.months.s)

\* the months without the max
AtLeastOneMonthMissing(n) == n

\* n_months = max(n_months, 1)
AtLeastOneMonth(n) == Max(n, 1)

\* the failure reported as an application failure
ItemFailApplication(kind) == "APPLICATION"

\* item.fail("BUSINESS", ...): the release state of the workitem
ItemFail(kind) == kind

ErrorPayload == [status |-> "error", error |-> "Invalid input payload."]

SuccessPayload(q, c, m, rows) ==
    [status |-> "success", search_query |-> q, category |-> c, months |-> m,
     image_files |->
        SelectSeq([i \in 1..Len(rows) |-> rows[i].picture_filename], Truthy)]

\* the OutputRow create_output_rows builds for an article
MakeRow(a, q, c, m) ==
    [title |-> a.title, date |-> publication_date(a),
     description |-> a.description, picture_filename |-> a.image_filepath,
     search_phrase_count |-> count_search_query_occurrences(a, q.s),
     contains_money |->
        is_there_any_money_amount(a.title.s)
            \/ is_there_any_money_amount(a.description.s),
     search_query |-> q, category |-> c, months |-> m]

\* tasks.OutputRow.__post_init__: the assertions on a row
RowAssertionsHold(r) ==
    /\ is_not_empty_string(r.title)
    /\ is_not_empty_string(r.description)
    /\ is_not_empty_string(r.picture_filename)
    /\ r.search_phrase_count >= 0
    /\ is_not_empty_string(r.search_query)
    /\ is_not_empty_string(r.category)
    /\ r.months >= 1

\* lines 80-85: the next input workitem has an invalid payload: error
\* output, business failure, continue
RejectItem ==
    /\ pc = "task_loop"
    /\ order < MaxItems
    /\ \E p \in Payloads :
          /\ ~is_input_payload_valid(p)
          /\ item' = p
    /\ outputs' = Append(outputs, ErrorPayload)
    /\ released' = Append(released, ItemFail("BUSINESS"))
    /\ order' = order + 1
    /\ UNCHANGED <<search_query, category, n_months, output_rows>>
    /\ UNCHANGED <<textVars, phaseVars, downloaded, next_page_button>>
    /\ UNCHANGED <<siteVars, browserVars, newsVars>>

\* lines 80-92, 165-169: the next input workitem has a valid payload: the
\* locals, a new scraper, set_webdriver, open_homepage
AcceptItem ==
    /\ pc = "task_loop"
    /\ order < MaxItems
    /\ \E p \in Payloads :
          /\ is_input_payload_valid(p)
          /\ item' = p
          /\ search_query' = PayloadGet(p.search_query)
          /\ category' = PayloadGet(p.category)
          /\ n_months' = AtLeastOneMonth(MonthsOf(p))
    /\ released' = Append(released, "PENDING")
    /\ order' = order + 1
    /\ driver' = "live"
    /\ downloaded' = {}
    /\ next_page_button' = "unset"
    /\ clicked' = <<>>
    /\ search_results_stale' = FALSE
    /\ pc' = "search"
    /\ UNCHANGED <<outputs, output_rows>>
    /\ UNCHANGED <<textVars>>
    /\ UNCHANGED <<siteVars, shown, target, stale>>
    /\ UNCHANGED <<min_date, news, articles, idx, should_stop_pagination,
                   should_refetch_articles, returned, exc>>

\* line 170: search_for: the first page of the results is displayed
SearchFor ==
    /\ pc = "search"
    /\ shown' = 1
    /\ target' = 1
    /\ pc' = "filter"
    /\ UNCHANGED <<stale, driver>>
    /\ UNCHANGED <<min_date, news, articles, idx, should_stop_pagination,
                   should_refetch_articles, returned, exc>>
    /\ UNCHANGED <<textVars, phaseVars, downloaded, next_page_button>>
    /\ UNCHANGED <<siteVars, taskVars>>

\* the comparison without lower() and strip()
CategoryMatchesExactly(text, category_) == text = category_

\* scraper.py 126: the test of the loop
CategoryMatches(text, category_) ==
    strip(lower(text)) = strip(lower(category_))

\* scraper.py 125-129: the loop from entry i on: the positions clicked
RECURSIVE ClickedFrom(_, _, _)
ClickedFrom(cats, category_, i) ==
    IF i > Len(cats) THEN <<>>
    ELSE IF CategoryMatches(cats[i], category_)
         THEN <<i>>
         ELSE ClickedFrom(cats, category_, i + 1)

\* scraper.py 111-121: the "see all" button is clicked, the entries of the
\* menu are visible
ShowCategories ==
    /\ pc = "filter"
    /\ categories # <<>>
    /\ pc' = "filter_match"
    /\ UNCHANGED <<min_date, news, articles, idx, should_stop_pagination,
                   should_refetch_articles, returned, exc>>
    /\ UNCHANGED <<textVars, phaseVars, downloaded, next_page_button>>
    /\ UNCHANGED <<siteVars, browserVars, taskVars>>

\* scraper.py 124-140, tasks.py 173: the loop over the entries, the reset
\* button after a click or the warning, then the cutoff
FilterByCategory ==
    /\ pc = "filter_match"
    /\ IsStr(category)
    /\ clicked' = ClickedFrom(categories, category.s, 1)
    /\ min_date' = compute_minimum_publication_date(n_months)
    /\ pc' = "gn_start"
    /\ UNCHANGED <<news, articles, idx, should_stop_pagination,
                   should_refetch_articles, returned, exc>>
    /\ UNCHANGED <<textVars, search_results_stale, downloaded,
                   next_page_button>>
    /\ UNCHANGED <<siteVars, browserVars, taskVars>>

\* scraper.py 132-136: an entry was clicked, the reset button does not show
\* within the timeout
FilterResetTimeout ==
    /\ pc = "filter_match"
    /\ IsStr(category)
    /\ ClickedFrom(categories, category.s, 1) # <<>>
    /\ clicked' = ClickedFrom(categories, category.s, 1)
    /\ Raise("TimeoutException")
    /\ UNCHANGED <<min_date, news, articles, idx, should_stop_pagination,
                   should_refetch_articles, returned>>
    /\ UNCHANGED <<textVars, search_results_stale, downloaded,
                   next_page_button>>
    /\ UNCHANGED <<siteVars, browserVars, taskVars>>

\* line 126: category.lower() of a null category
FilterByCategoryFails ==
    /\ pc = "filter_match"
    /\ ~IsStr(category)
    /\ Raise("AttributeError")
    /\ UNCHANGED <<min_date, news, articles, idx, should_stop_pagination,
                   should_refetch_articles, returned>>
    /\ UNCHANGED <<textVars, phaseVars, downloaded, next_page_button>>
    /\ UNCHANGED <<siteVars, browserVars, taskVars>>

\* a WebDriverWait(...).until(...) of search_for, or one for the "see all"
\* button or the entries of the menu (scraper.py 111-121), times out
SearchTimeout ==
    /\ pc \in {"search", "filter"}
    /\ Raise("TimeoutException")
    /\ UNCHANGED <<min_date, news, articles, idx, should_stop_pagination,
                   should_refetch_articles, returned>>
    /\ UNCHANGED <<textVars, phaseVars, downloaded, next_page_button>>
    /\ UNCHANGED <<siteVars, browserVars, taskVars>>

\* lines 174-178: get_news returned: driver_quit, return news
DriverQuit ==
    /\ pc = "gn_returned"
    /\ driver' = "quit"
    /\ pc' = "rows"
    /\ UNCHANGED <<shown, target, stale>>
    /\ UNCHANGED <<min_date, news, articles, idx, should_stop_pagination,
                   should_refetch_articles, returned, exc>>
    /\ UNCHANGED <<textVars, phaseVars, downloaded, next_page_button>>
    /\ UNCHANGED <<siteVars, taskVars>>

RowsOf(list, q, c, m) == [i \in 1..Len(list) |-> MakeRow(list[i], q, c, m)]

\* lines 98, 129-151: create_output_rows returns a row per article
CreateOutputRows ==
    /\ pc = "rows"
    /\ \A i \in 1..Len(returned) :
          RowAssertionsHold(MakeRow(returned[i], search_query, category, n_months))
    /\ output_rows' = RowsOf(returned, search_query, category, n_months)
    /\ pc' = "save"
    /\ UNCHANGED <<item, order, outputs, released, search_query, category,
                   n_months>>
    /\ UNCHANGED <<min_date, news, articles, idx, should_stop_pagination,
                   should_refetch_articles, returned, exc>>
    /\ UNCHANGED <<textVars, phaseVars, downloaded, next_page_button>>
    /\ UNCHANGED <<siteVars, browserVars>>

\* lines 34-43, 138: an assertion of OutputRow.__post_init__ fails
CreateOutputRowsFails ==
    /\ pc = "rows"
    /\ \E i \in 1..Len(returned) :
          ~RowAssertionsHold(MakeRow(returned[i], search_query, category, n_months))
    /\ Raise("AssertionError")
    /\ UNCHANGED <<min_date, news, articles, idx, should_stop_pagination,
                   should_refetch_articles, returned>>
    /\ UNCHANGED <<textVars, phaseVars, downloaded, next_page_button>>
    /\ UNCHANGED <<siteVars, browserVars, taskVars>>

\* lines 100-120: the workbook is saved and the success output created
ReportSuccess ==
    /\ pc = "save"
    /\ outputs' =
          Append(outputs,
                 SuccessPayload(search_query, category, n_months, output_rows))
    /\ pc' = "task_loop"
    /\ UNCHANGED <<item, order, released, search_query, category, n_months,
                   output_rows>>
    /\ UNCHANGED <<min_date, news, articles, idx, should_stop_pagination,
                   should_refetch_articles, returned, exc>>
    /\ UNCHANGED <<textVars, phaseVars, downloaded, next_page_button>>
    /\ UNCHANGED <<siteVars, browserVars>>

\* line 80: no input workitem is left
Finish ==
    /\ pc = "task_loop"
    /\ pc' = "task_done"
    /\ UNCHANGED <<min_date, news, articles, idx, should_stop_pagination,
                   should_refetch_articles, returned, exc>>
    /\ UNCHANGED <<textVars, phaseVars, downloaded, next_page_button>>
    /\ UNCHANGED <<siteVars, browserVars, taskVars>>

NextTask ==
    \/ RejectItem
    \/ AcceptItem
    \/ SearchFor
    \/ ShowCategories
    \/ FilterByCategory
    \/ FilterResetTimeout
    \/ FilterByCategoryFails
    \/ SearchTimeout
    \/ DriverQuit
    \/ CreateOutputRows
    \/ CreateOutputRowsFails
    \/ ReportSuccess
    \/ Finish

Next == NextTask \/ NextNews

\* the elements of the sites of the whole task: two illustrated articles,
\* one of last month without image and an element without title
TaskElements ==
    { Element(TitleB, Descr, TsNew, Topic, Url),
      Element(TitleA, Descr, TsNewer, Topic, Url),
      Element(TitleA, Descr, TsOld, PyNone, PyNone),
      Element(PyNone, Descr, TsNew, PyNone, Url) }

\* the results of a site: up to a page of these elements, each once
TaskSites ==
    {s \in SeqsUpTo(TaskElements, MaxPageSize) :
        \A i, j \in 1..Len(s) : i # j => s[i] # s[j]}

Init ==
    /\ item = PyNone
    /\ results \in TaskSites
    /\ pageSize \in {1, MaxPageSize}
    /\ categories = TopicsMenu
    /\ clicked = <<>>
    /\ search_results_stale = FALSE
    /\ order = 0
    /\ outputs = <<>>
    /\ released = <<>>
    /\ search_query = PyNone
    /\ category = PyNone
    /\ n_months = 0
    /\ output_rows = <<>>
    /\ shown = 0
    /\ target = 0
    /\ stale = {}
    /\ driver = "none"
    /\ pc = "task_loop"
    /\ min_date = 0
    /\ news = {}
    /\ articles = <<>>
    /\ idx = 1
    /\ should_stop_pagination = FALSE
    /\ should_refetch_articles = FALSE
    /\ returned = <<>>
    /\ exc = "none"
    /\ downloaded = {}
    /\ next_page_button = "unset"
    /\ input_text = <<>>
    /\ input_query = <<>>
    /\ query_count = 0
    /\ contains_money = FALSE

Spec == Init /\ [][Next]_vars

----------------------------------------------------------------------------
\* search_for and filter_by_category on their own (tasks.py 170-173), on the
\* menus of some sites and some requested categories

\* the texts of the entries of a menu, and the categories requested: a topic
\* in both cases and with surrounding blanks, another topic; a null category
MenuTexts == { <<"c">>, <<"C">>, <<" ", "c">>, <<"C", " ">>, <<"x">> }

RequestedCategories ==
    { PyStr(<<"c">>), PyStr(<<"C", " ">>), PyStr(<<"y">>), PyNone }

NextFilter ==
    \/ SearchFor
    \/ ShowCategories
    \/ FilterByCategory
    \/ FilterResetTimeout
    \/ FilterByCategoryFails
    \/ SearchTimeout

InitFilter ==
    /\ categories \in SeqsUpTo(MenuTexts, MaxMenu)
    /\ category \in RequestedCategories
    /\ clicked = <<>>
    /\ search_results_stale = FALSE
    /\ results = <<>>
    /\ pageSize = 1
    /\ shown = 0
    /\ target = 0
    /\ stale = {}
    /\ driver = "live"
    /\ pc = "search"
    /\ n_months \in {1, MaxMonths}
    /\ min_date = 0
    /\ news = {}
    /\ articles = <<>>
    /\ idx = 1
    /\ should_stop_pagination = FALSE
    /\ should_refetch_articles = FALSE
    /\ returned = <<>>
    /\ exc = "none"
    /\ downloaded = {}
    /\ next_page_button = "unset"
    /\ input_text = <<>>
    /\ input_query = <<>>
    /\ query_count = 0
    /\ contains_money = FALSE
    /\ item = PyNone
    /\ order = 0
    /\ outputs = <<>>
    /\ released = <<>>
    /\ search_query = Query
    /\ output_rows = <<>>

SpecFilter == InitFilter /\ [][NextFilter]_vars

----------------------------------------------------------------------------
\* The text analyzers on their own, as create_output_rows calls them
\* (tasks.py 135-136): the count first, then the money test

RECURSIVE Concat(_)
Concat(tokens) ==
    IF tokens = <<>> THEN <<>> ELSE Head(tokens) \o Concat(Tail(tokens))

\* the texts that join up to n tokens of a set
TextsOver(tokens, n) == {Concat(t) : t \in UNION {[1..k -> tokens] : k \in 0..n}}

\* letters of both cases for the texts and phrases that are counted
LetterTokens == {<<"a">>, <<"A">>, <<"b">>}

\* the pieces of the texts tested for money amounts: the symbol, numerals,
\* a thousands group, decimals, whitespace, the keywords and other words
MoneyTokens ==
    { <<"$">>, <<"1">>, <<",", "2", "3", "4">>, <<".", "5">>, <<" ">>,
      <<"\t">>, Dollars, USD, <<"u", "s", "d">>, <<"x">> }

\* the (text, search_query) pairs the analyzers are applied to
TextInputs ==
    (TextsOver(LetterTokens, MaxText) \X TextsOver(LetterTokens, MaxQuery))
        \cup (TextsOver(MoneyTokens, MaxText) \X {<<>>, Dollars})

\* tasks.py 135: query_count = count_search_query(...)
CallCountSearchQuery ==
    /\ pc = "text_start"
    /\ query_count' = count_search_query(input_text, input_query)
    /\ pc' = "text_counted"
    /\ UNCHANGED <<input_text, input_query, contains_money>>
    /\ UNCHANGED <<min_date, news, articles, idx, should_stop_pagination,
                   should_refetch_articles, returned, exc>>
    /\ UNCHANGED <<siteVars, browserVars, taskVars, downloaded,
                   next_page_button, phaseVars>>

\* tasks.py 136: contains_money = is_there_any_money_amount(...)
CallIsThereAnyMoneyAmount ==
    /\ pc = "text_counted"
    /\ contains_money' = is_there_any_money_amount(input_text)
    /\ pc' = "text_done"
    /\ UNCHANGED <<input_text, input_query, query_count>>
    /\ UNCHANGED <<min_date, news, articles, idx, should_stop_pagination,
                   should_refetch_articles, returned, exc>>
    /\ UNCHANGED <<siteVars, browserVars, taskVars, downloaded,
                   next_page_button, phaseVars>>

NextText == CallCountSearchQuery \/ CallIsThereAnyMoneyAmount

InitText ==
    /\ \E p \in TextInputs :
          /\ input_text = p[1]
          /\ input_query = p[2]
    /\ query_count = 0
    /\ contains_money = FALSE
    /\ pc = "text_start"
    /\ results = <<>>
    /\ pageSize = 1
    /\ categories = <<>>
    /\ clicked = <<>>
    /\ search_results_stale = FALSE
    /\ shown = 0
    /\ target = 0
    /\ stale = {}
    /\ driver = "none"
    /\ min_date = 0
    /\ news = {}
    /\ articles = <<>>
    /\ idx = 1
    /\ should_stop_pagination = FALSE
    /\ should_refetch_articles = FALSE
    /\ returned = <<>>
    /\ exc = "none"
    /\ downloaded = {}
    /\ next_page_button = "unset"
    /\ item = PyNone
    /\ order = 0
    /\ outputs = <<>>
    /\ released = <<>>
    /\ search_query = PyNone
    /\ category = PyNone
    /\ n_months = 0
    /\ output_rows = <<>>

SpecText == InitText /\ [][NextText]_vars

----------------------------------------------------------------------------
\* Claims about get_news (checked under SpecNews)

ReturnedSet == {returned[i] : i \in 1..Len(returned)}
Keys(S) == {ArticleKey(a) : a \in S}

\* the page and position the scanned batch was fetched from
BatchPage == articles[1].page

\* C1: every article accumulated by get_news, and every article of the list
\* it returns, has a publication month that is not before the cutoff.
C1_CutoffSoundness ==
    /\ \A a \in news : a.published_at \div TicksPerMonth >= min_date
    /\ \A i \in 1..Len(returned) :
          returned[i].published_at \div TicksPerMonth >= min_date

\* C1 witness: get_news returned articles after it met an article older than
\* the cutoff.
C1_Witness ==
    /\ pc = "gn_returned"
    /\ should_stop_pagination
    /\ returned # <<>>

\* the results are in newest-first order
NewestFirst ==
    \A i, j \in 1..Len(results) :
        i < j => extract_article_date(results[i]) >= extract_article_date(results[j])

AllParse == \A i \in 1..Len(results) : ~ParseFails(results[i])

\* C2: when get_news returns and the results are newest-first and all parse,
\* the returned list holds every result whose month is not before the cutoff.
C2_Completeness ==
    (pc = "gn_returned" /\ NewestFirst /\ AllParse) =>
        \A i \in 1..Len(results) :
            (extract_article_date(results[i]) \div TicksPerMonth >= min_date) =>
                <<results[i].title, extract_article_date(results[i])>>
                    \in Keys(ReturnedSet)

KeyUnique(S) ==
    \A a, b \in S : (a.title = b.title /\ a.published_at = b.published_at) => a = b

\* C3: the accumulated set never holds two articles with the same
\* (title, published_at) key, and while a run collects, every article once
\* admitted stays as it was admitted: a later article with its key changes
\* nothing.
C3_Deduplication ==
    /\ KeyUnique(news)
    /\ [][KeyUnique(news') /\ (pc # "gn_wait_stale" => news \subseteq news')]_vars

\* C3 witness: an element that was parsed without staleness has the key of a
\* kept article that differs from it in category.
C3_Witness ==
    /\ pc = "gn_parse"
    /\ \E j \in 1..(idx - 1) :
          /\ ~is_web_element_stale(articles[j], j)
          /\ ~ParseFails(ElementOf(articles[j]))
          /\ \E a \in news :
                /\ a.title = ElementOf(articles[j]).title
                /\ a.published_at = extract_article_date(ElementOf(articles[j]))
                /\ a.category # ElementOf(articles[j]).category

\* C4: the returned list is in descending order of published_at and holds
\* exactly the articles of the accumulated set, each once.
C4_ResultOrder ==
    pc = "gn_returned" =>
        /\ \A i, j \in 1..Len(returned) :
              i < j => returned[i].published_at >= returned[j].published_at
        /\ ReturnedSet = news
        /\ Len(returned) = Cardinality(news)

\* C4 witness: a returned list of articles with different timestamps.
C4_Witness ==
    /\ pc = "gn_returned"
    /\ Len(returned) >= 2
    /\ returned[1].published_at > returned[Len(returned)].published_at

StopPending ==
    /\ pc = "gn_parse"
    /\ should_stop_pagination
    /\ ~should_refetch_articles

\* the position in the results of the element the for loop is at
ScanPosition == (BatchPage - 1) * pageSize + idx

ElementKey(e) == <<e.title, extract_article_date(e)>>

\* the keys of the results before position n
KeysBefore(n) == {ElementKey(results[i]) : i \in 1..(n - 1)}

AnyStale == \E i \in 1..Len(articles) : articles[i].page # shown \/ i \in stale

\* C6: a fetched batch with a stale element is discarded and the page is
\* fetched again, with the accumulated set, the page and the navigation
\* unchanged and without terminating; the batch that is scanned is one in
\* which no element was stale when checked.
C6_StalenessRecovery ==
    [][(pc = "gn_check" /\ pc' # pc) =>
          IF AnyStale
          THEN /\ pc' = "gn_fetch"
               /\ articles' = <<>>
               /\ UNCHANGED <<news, shown, target, returned, exc>>
          ELSE /\ pc' = "gn_parse"
               /\ UNCHANGED <<articles, news, shown, target>>]_vars

\* C6 witness: a batch with a stale element has just been discarded (the
\* batch is empty) after articles were accumulated, and the page is about to
\* be fetched again.
C6_Witness ==
    /\ pc = "gn_fetch"
    /\ articles = <<>>
    /\ news # {}

\* the element the for loop is at
Current == ElementOf(articles[idx])

\* the for loop is at an element whose handle is not stale
AtFreshElement ==
    /\ pc = "gn_parse"
    /\ ~should_stop_pagination
    /\ idx <= Len(articles)
    /\ articles[idx].page = shown
    /\ idx \notin stale

\* a step of get_news (not of the browser or the site)
ProgramStep == newsVars' # newsVars \/ downloaded' # downloaded

\* C14 as claimed: when parse_article raises ArticleParseError for an element
\* (no title or no description, the image download not having failed), the
\* loop goes on to the next element of the same batch with the accumulated
\* set and both flags unchanged, and no exception leaves get_news.
C14_ParseFailureContinues ==
    [][(/\ AtFreshElement
        /\ ~Truthy(Current.title) \/ ~Truthy(Current.description)
        /\ ProgramStep
        /\ exc' # "HTTPError") =>
          /\ pc' = "gn_parse"
          /\ exc' = "none"
          /\ idx' = idx + 1
          /\ UNCHANGED <<articles, news, should_stop_pagination,
                         should_refetch_articles>>]_vars

\* the for loop of the batch is over: exhausted, or left by break
BatchDone == pc = "gn_parse" /\ (should_stop_pagination \/ idx > Len(articles))

\* C15: a StaleElementReferenceException while an element is parsed sets the
\* refetch flag, the flag stays set for the rest of the batch, and after the
\* batch a set refetch flag makes get_news fetch again without returning,
\* without consulting the next-page control and without requesting a page,
\* whatever the stop flag is.
C15_RefetchPriority ==
    /\ [][(/\ pc = "gn_parse"
           /\ ~should_stop_pagination
           /\ idx <= Len(articles)
           /\ articles[idx].page # shown \/ idx \in stale
           /\ ProgramStep) =>
              /\ should_refetch_articles'
              /\ pc' = "gn_parse"]_vars
    /\ [][(pc = "gn_parse" /\ should_refetch_articles /\ pc' = "gn_parse") =>
              should_refetch_articles']_vars
    /\ [][(BatchDone /\ should_refetch_articles /\ ProgramStep) =>
              /\ pc' = "gn_fetch"
              /\ UNCHANGED <<target, shown, next_page_button, returned, news,
                             exc>>]_vars

\* C15 witness: the same page is about to be fetched again after a batch in
\* which both the refetch flag and the stop flag were set, on a page that has
\* a next page.
C15_Witness ==
    /\ pc = "gn_fetch"
    /\ should_refetch_articles
    /\ should_stop_pagination
    /\ shown = target
    /\ shown < NumPages

\* go_to_next_page is called: the batch is over and no flag is set
Advancing ==
    /\ pc = "gn_parse"
    /\ idx > Len(articles)
    /\ ~should_refetch_articles
    /\ ~should_stop_pagination
    /\ ProgramStep

\* C16: when get_news consults the pagination control it meets it absent,
\* inactive, or active; absent, inactive or with the click intercepted,
\* get_news returns its sorted list at once and requests no page; only a
\* click that succeeded requests the next page and is followed by a fetch,
\* and a fetch follows a batch without refetch flag only after such a click.
C16_PageAdvance ==
    /\ [][Advancing =>
              /\ next_page_button' \in {"absent", "inactive", "clicked", "intercepted"}
              /\ next_page_button' \in {"absent", "inactive"} => shown >= NumPages
              /\ next_page_button' \in {"clicked", "intercepted"} => shown < NumPages
              /\ next_page_button' # "clicked" =>
                    /\ pc' = "gn_returned"
                    /\ target' = target
                    /\ {returned'[i] : i \in 1..Len(returned')} = news
              /\ next_page_button' = "clicked" =>
                    /\ pc' = "gn_fetch"
                    /\ target' = shown + 1
                    /\ returned' = returned]_vars
    /\ [][(pc = "gn_parse" /\ pc' = "gn_fetch" /\ ~should_refetch_articles) =>
              (Advancing /\ next_page_button' = "clicked")]_vars

\* C16 witness: get_news returned after an intercepted click on the second
\* page, which a successful click on the first page had requested.
C16_Witness ==
    /\ pc = "gn_returned"
    /\ next_page_button = "intercepted"
    /\ target = 2
    /\ shown = 2
    /\ NumPages = 3
    /\ news # {}

\* position j of the batch holds an article that parses, is fresh and is
\* older than the cutoff
OldArticleAt(j) ==
    /\ articles[j].page = shown
    /\ j \notin stale
    /\ Truthy(ElementOf(articles[j]).title)
    /\ Truthy(ElementOf(articles[j]).description)
    /\ ElementOf(articles[j]).timestamp # PyNone
    /\ ElementOf(articles[j]).timestamp.n \div TicksPerMonth < min_date

\* the for loop has not passed an old article
NotPastOldArticle ==
    pc = "gn_parse" => \A j \in 1..(idx - 1) : ~OldArticleAt(j)

\* C17: the for loop never goes past a successfully parsed article that is
\* older than the cutoff, and once the stop flag is set in a batch no element
\* of the batch is parsed, downloaded or admitted.
C17_StopScanning ==
    /\ NotPastOldArticle
    /\ [][NotPastOldArticle']_vars
    /\ [][(pc = "gn_parse" /\ should_stop_pagination) =>
              UNCHANGED <<idx, articles, news, downloaded>>]_vars

\* C17 witness: the stop flag is set at an old article that is followed, in
\* the same batch, by a recent illustrated article, which is not in the set.
C17_Witness ==
    /\ pc = "gn_parse"
    /\ should_stop_pagination
    /\ OldArticleAt(idx)
    /\ idx < Len(articles)
    /\ ElementOf(articles[idx + 1]).timestamp = TsNewer
    /\ Truthy(ElementOf(articles[idx + 1]).image_url)
    /\ idx + 1 \notin downloaded
    /\ \A a \in news : a.published_at # TsNewer.n

C19_DownloadThenAdmit ==
    [][(pc = "gn_parse" /\ downloaded' # downloaded /\ downloaded' # {}) =>
          /\ Truthy(Current.title)
          /\ Truthy(Current.description)
          /\ \E a \in news' :
                /\ a.title = Current.title
                /\ a.image_url = Current.image_url]_vars

HTTPErrorLeft == exc = "HTTPError" => (pc = "crashed" /\ returned = <<>>)

\* C20: the loop does not go past a fresh element with an image unless the
\* image was saved: when the download fails the HTTPError leaves get_news
\* with nothing admitted, and get_news returns no list then or later.
C20_DownloadFailurePropagates ==
    /\ HTTPErrorLeft
    /\ [][HTTPErrorLeft']_vars
    /\ [][(AtFreshElement /\ Truthy(Current.image_url) /\ ProgramStep) =>
              \/ idx \in downloaded'
              \/ /\ exc' = "HTTPError"
                 /\ pc' = "crashed"
                 /\ UNCHANGED <<news, returned, idx>>]_vars
    /\ [][pc = "crashed" => UNCHANGED <<pc, exc, news, returned>>]_vars

\* C20 witness: an HTTPError left get_news after articles had been admitted
\* and a next page requested.
C20_Witness ==
    /\ exc = "HTTPError"
    /\ pc = "crashed"
    /\ news # {}
    /\ target = 2
    /\ returned = <<>>

----------------------------------------------------------------------------
\* Claims about the task (checked under Spec)

\* C7 as claimed: create_output_rows raises no error and returns one row per
\* article of the list get_news returned, row i built from article i.
C7_RowPerArticle ==
    /\ exc # "AssertionError"
    /\ pc = "save" =>
          /\ Len(output_rows) = Len(returned)
          /\ \A i \in 1..Len(returned) :
                /\ output_rows[i].title = returned[i].title
                /\ output_rows[i].date = returned[i].published_at
                /\ output_rows[i].picture_filename = returned[i].image_filepath

\* get_la_times_latest_news has been entered and has not exited
InLatestNews ==
    pc \in ({"search", "filter", "filter_match", "gn_returned"} \cup GetNewsPcs)

\* C8 as claimed: whenever get_la_times_latest_news has exited, by a return
\* or by an exception, the browser session is not live.
C8_SessionReleased == ~InLatestNews => driver # "live"

\* C9: when the loop takes a workitem whose payload is invalid, it creates
\* one error output, fails the workitem as BUSINESS, starts no browser
\* session and no scraping, and is back at the head of the loop.
C9_InvalidItem ==
    [][(order' = order + 1 /\ ~is_input_payload_valid(item')) =>
          /\ outputs' = Append(outputs, [status |-> "error",
                                         error |-> "Invalid input payload."])
          /\ released' = Append(released, "BUSINESS")
          /\ pc' = "task_loop"
          /\ UNCHANGED <<browserVars, newsVars, output_rows>>]_vars

\* C9 witness: a workitem was failed as BUSINESS and the workitem after it
\* was processed to a success output.
C9_Witness ==
    /\ pc = "task_loop"
    /\ Len(released) = 2
    /\ released[1] = "BUSINESS"
    /\ outputs[1].status = "error"
    /\ Len(outputs) = 2
    /\ outputs[2].status = "success"

Scraping ==
    pc \in {"search", "filter", "filter_match", "gn_returned", "rows", "save"}
             \cup GetNewsPcs

TakesItemWithoutCategory ==
    /\ order' = order + 1
    /\ item'.category = Absent
    /\ IsStr(item'.search_query)
    /\ \E i \in 1..Len(item'.search_query.s) : item'.search_query.s[i] # " "
    /\ item'.months \in {PyInt(m) : m \in 0..MaxMonths}

\* C11 as claimed: a workitem whose payload has a non-empty search_query and
\* no category is processed, not rejected: it is not failed, no error output
\* is created for it, the scraping starts with an absent (None) category, and
\* none of its runs ends in an error of the category handling or of the rows.
C11_CategoryOptional ==
    /\ [][TakesItemWithoutCategory =>
              /\ released' = Append(released, "PENDING")
              /\ outputs' = outputs
              /\ pc' = "search"
              /\ category' = PyNone]_vars
    /\ [][(item # PyNone /\ item.category \in {Absent, PyNone} /\ exc = "none") =>
              exc' \notin {"AttributeError", "AssertionError"}]_vars

----------------------------------------------------------------------------
\* Claims about the text analyzers (checked under SpecText)

\* two texts are equal up to the case of their letters
EqualIgnoringCase(a, b) ==
    /\ Len(a) = Len(b)
    /\ \A i \in 1..Len(a) :
          \/ a[i] = b[i]
          \/ \E k \in 1..26 : {a[i], b[i]} = {Uppers[k], Lowers[k]}

\* the positions of t where q occurs, compared case-insensitively
Occurrences(t, q) ==
    {p \in 1..(Len(t) - Len(q) + 1) :
        EqualIgnoringCase(SubSeq(t, p, p + Len(q) - 1), q)}

\* the largest number of occurrences of q in t no two of which overlap
NonOverlapping(t, q) ==
    LET sets == {S \in SUBSET Occurrences(t, q) :
                    \A x, y \in S : x # y => (x - y >= Len(q) \/ y - x >= Len(q))}
    IN  CHOOSE n \in 0..Len(t) :
            /\ \E S \in sets : Cardinality(S) = n
            /\ \A S \in sets : Cardinality(S) <= n

\* C12: count_search_query returns the number of non-overlapping
\* case-insensitive occurrences of the query in the text, and 0 for an empty
\* query, an empty text and a query that does not occur.
C12_CountSearchQuery ==
    pc \in {"text_counted", "text_done"} =>
        /\ query_count =
              (IF input_query = <<>> THEN 0
               ELSE NonOverlapping(input_text, input_query))
        /\ input_query = <<>> => query_count = 0
        /\ input_text = <<>> => query_count = 0
        /\ Occurrences(input_text, input_query) = {} => query_count = 0

\* C12 witness: a phrase of two letters was counted twice in a text that
\* holds it in another case and has room for an overlapping third place.
C12_Witness ==
    /\ pc = "text_done"
    /\ Len(input_query) = 2
    /\ query_count = 2
    /\ Cardinality(Occurrences(input_text, input_query)) = 3
    /\ \E i \in 1..Len(input_text) : input_text[i] = "A"
    /\ \A i \in 1..Len(input_query) : input_query[i] = "a"

\* text t holds word at position i in any letter case
WordAt(t, i, word) ==
    /\ i + Len(word) - 1 <= Len(t)
    /\ EqualIgnoringCase(SubSeq(t, i, i + Len(word) - 1), word)

\* a '$' directly followed by a digit
DollarNumeral(t) ==
    \E i \in 1..(Len(t) - 1) : t[i] = "$" /\ t[i + 1] \in DigitChars

\* a digit followed, with at most one whitespace character between, by
\* 'dollars' or 'USD' in any letter case
NumeralKeyword(t) ==
    \E i \in 1..Len(t) :
        /\ t[i] \in DigitChars
        /\ \E word \in {<<"d", "o", "l", "l", "a", "r", "s">>, <<"u", "s", "d">>} :
              \/ WordAt(t, i + 1, word)
              \/ /\ i + 1 <= Len(t)
                 /\ t[i + 1] \in {" ", "\t", "\n"}
                 /\ WordAt(t, i + 2, word)

\* C13: is_there_any_money_amount is true for every text with a $-prefixed
\* numeral or a numeral followed, with at most one whitespace character, by
\* 'dollars' or 'USD' in any letter case, and false for every other text:
\* the empty text, a '$' without a digit after it, numerals without '$' and
\* keyword.
C13_MoneyAmount ==
    pc = "text_done" =>
        /\ contains_money = (DollarNumeral(input_text) \/ NumeralKeyword(input_text))
        /\ input_text = <<>> => ~contains_money

\* C13 witness: a text with a thousands group, a tab and the keyword in lower
\* case was found to hold a money amount, without any '$'.
C13_Witness ==
    /\ pc = "text_done"
    /\ contains_money
    /\ input_text = <<"1", ",", "2", "3", "4", "\t", "u", "s", "d">>

----------------------------------------------------------------------------
\* Claims about filter_by_category (checked under SpecFilter)

\* the entries whose trimmed, lower-cased text is the trimmed, lower-cased
\* category requested
MatchingEntries ==
    {i \in 1..Len(categories) :
        strip(lower(categories[i])) = strip(lower(category.s))}

FilterActs == pc = "filter_match" /\ IsStr(category) /\ pc' # pc

\* C21: filter_by_category clicks at most one entry, the first one whose
\* trimmed, lower-cased text equals the trimmed, lower-cased category; when
\* no entry matches it clicks none, raises nothing, and the run goes on to
\* get_news
C21_CategoryFilter ==
    [][FilterActs =>
         /\ Len(clicked') <= 1
         /\ MatchingEntries # {} =>
               /\ clicked' # <<>>
               /\ clicked'[1] \in MatchingEntries
               /\ \A i \in MatchingEntries : clicked'[1] <= i
         /\ MatchingEntries = {} =>
               /\ clicked' = <<>>
               /\ exc' = "none"
               /\ pc' = "gn_start"]_vars

\* an entry that differs from the category by case or blanks was clicked, a
\* later entry matches too
C21_Witness ==
    /\ pc = "gn_start"
    /\ IsStr(category)
    /\ Len(clicked) = 1
    /\ clicked[1] > 1
    /\ categories[clicked[1]] # category.s
    /\ \E i \in MatchingEntries : i > clicked[1]

----------------------------------------------------------------------------
\* Claims about the phases of a run (checked under Spec)

\* the phase a position of the program belongs to: 1 search, 2 category
\* filtering, 3 sort by newest, 4 page collection; 0 outside of them
PhaseOf(p) ==
    CASE p = "search" -> 1
      [] p \in {"filter", "filter_match"} -> 2
      [] p \in {"gn_start", "gn_wait_stale"} -> 3
      [] p \in {"gn_fetch", "gn_check", "gn_parse"} -> 4
      [] OTHER -> 0

Collecting == PhaseOf(pc) = 4

\* C22: a run goes through search, category filtering, sort by newest and
\* page collection in that order; no article element is fetched before
\* "Newest" was selected and the results displayed before it went stale; a
\* wait that never sees them stale aborts the run, nothing is collected
C22_PhaseOrder ==
    /\ Collecting => search_results_stale
    /\ [][/\ Collecting' => search_results_stale'
          /\ (PhaseOf(pc) = 0 /\ PhaseOf(pc') # 0) => PhaseOf(pc') = 1
          /\ (PhaseOf(pc) # 0 /\ PhaseOf(pc') # 0) =>
                PhaseOf(pc') \in {PhaseOf(pc), PhaseOf(pc) + 1}
          /\ (pc = "gn_start" /\ pc' # pc) =>
                pc' \in {"gn_wait_stale", "crashed"}
          /\ (pc = "gn_wait_stale" /\ ~search_results_stale /\ pc' # pc) =>
                /\ pc' = "crashed"
                /\ exc' = "TimeoutException"
                /\ UNCHANGED <<news, articles, returned>>]_vars

\* the second workitem of a run is in its page collection, after a click in
\* the menu
C22_Witness ==
    /\ pc = "gn_parse"
    /\ order = 2
    /\ clicked # <<>>
    /\ search_results_stale
    /\ news # {}

----------------------------------------------------------------------------
\* Termination of get_news (checked under SpecNewsFair)

Terminated == pc \in {"gn_returned", "crashed"}

\* a batch was scanned to its end, or to an old article, and no element of
\* it was found stale
CleanBatchScanned == BatchScanned /\ ~should_refetch_articles

\* staleness is transient: as long as batches are fetched, again and again
\* one of them is clean at fetch time and parses without staleness
TransientStaleness ==
    <>[](pc # "gn_fetch") \/ []<>CleanBatchScanned

\* C23: on the finitely many pages of a site, with transient staleness,
\* get_news terminates; a run that never terminates is one where staleness
\* recurs for ever
C23_Termination == TransientStaleness => <>Terminated

\* get_news returned from the last page of a site of several pages
C23_Witness ==
    /\ pc = "gn_returned"
    /\ NumPages > 1
    /\ shown = NumPages
    /\ next_page_button \in {"absent", "inactive"}

----------------------------------------------------------------------------
\* Claims about the pages get_news visits (checked under SpecNews)

\* C24: no page is skipped: a click that succeeds leaves the displayed page k
\* only after a batch fetched from page k was parsed without staleness, and
\* requests page k + 1
C24_NoPageSkipped ==
    [][(Advancing /\ pc' = "gn_fetch") =>
          /\ BatchPage = shown
          /\ target' = BatchPage + 1]_vars

\* the keys the run without staleness collects from position i of the
\* results on: every page is displayed before it is fetched, an element
\* that does not parse is passed over, the first article older than the
\* cutoff ends the run
RECURSIVE StalenessFreeKeysFrom(_)
StalenessFreeKeysFrom(i) ==
    IF i > Len(results) THEN {}
    ELSE IF ParseFails(results[i]) THEN StalenessFreeKeysFrom(i + 1)
    ELSE IF extract_article_date(results[i]) \div TicksPerMonth < min_date
         THEN {}
         ELSE {ElementKey(results[i])} \cup StalenessFreeKeysFrom(i + 1)

\* C25: staleness does not change the result: whatever elements went stale
\* at fetch time or during a scan, a run that returns and met no intercepted
\* click returns the keys of the run without staleness
C25_StalenessTransparent ==
    (pc = "gn_returned" /\ next_page_button # "intercepted") =>
        Keys(ReturnedSet) = StalenessFreeKeysFrom(1)

====
